---- MODULE Spec2Model ----
(***************************************************************************)
(* Model of src/lambda/main.py: a scheduled Lambda function that scans     *)
(* EC2 instances, RDS instances, EBS volumes and ELBv2 target groups,      *)
(* averages a CloudWatch metric for each, compares it with a threshold,    *)
(* tags underutilized EC2/EBS resources and publishes one SNS message.     *)
(*                                                                         *)
(* Numbers.  A datapoint's "Average" is an integer number of thousandths,  *)
(* the result of round(x, 2) an integer number of hundredths, a threshold  *)
(* an integer number of hundredths.  Python's None is the empty sequence   *)
(* and a value v is the one-element sequence <<v>>.                        *)
(*                                                                         *)
(* Strings.  An f-string is the sequence of its pieces, the literal ones   *)
(* and the formatted ones, in order: its text is their concatenation.      *)
(* A text holding newlines is the sequence of its lines.  Identifiers and  *)
(* formatted numbers are built with \o.                                    *)
(***************************************************************************)
EXTENDS Integers, Sequences, FiniteSets, TLC

VARIABLES
    env,                    \* os.environ of the process: name -> string
    EC2_CPU_THRESHOLD,      \* module globals, set when the module is imported
    RDS_CPU_THRESHOLD,
    EBS_IO_THRESHOLD,
    ELB_REQUEST_THRESHOLD,
    pc,                     \* position of lambda_handler
    sns_arn,                \* local of lambda_handler
    todo,                   \* the rest of the sequence the current for loop iterates
    underutilized_resources,
    utilized_resources,
    estimated_cost,
    message,                \* the composed body, as its lines
    create_tags_calls,      \* ec2.create_tags requests issued in this invocation
    published,          \* sns.publish requests issued in this invocation
    result,                 \* what the invocation handed to the host
    scanned,                \* what the collaborators answered in this invocation
    failedAt,               \* the call that raised, when the invocation failed
    datapoints,             \* averager on its own: the Datapoints it is given
    avg_cpu                 \* averager on its own: what it returned

vars == <<env, EC2_CPU_THRESHOLD, RDS_CPU_THRESHOLD, EBS_IO_THRESHOLD,
          ELB_REQUEST_THRESHOLD, pc, sns_arn, todo, underutilized_resources,
          utilized_resources, estimated_cost, message, create_tags_calls,
          published, result, scanned, failedAt,
          datapoints, avg_cpu>>

globals == <<EC2_CPU_THRESHOLD, RDS_CPU_THRESHOLD, EBS_IO_THRESHOLD,
             ELB_REQUEST_THRESHOLD>>

locals == <<sns_arn, todo, underutilized_resources, utilized_resources,
            estimated_cost, message, create_tags_calls, published, result,
            scanned, failedAt>>

averager == <<datapoints, avg_cpu>>

-----------------------------------------------------------------------------
(* Bounds of the model *)

\* resources the account holds, over the four kinds together
MaxResources == 2
\* datapoints CloudWatch returns to the averager checked on its own
MaxDatapoints == 3

-----------------------------------------------------------------------------
(* Python values *)

None == <<>>

Some(v) == <<v>>

\* an int or float literal n as hundredths
Centi(n) == n * 100

EC2_CPU_DEFAULT == 10
RDS_CPU_DEFAULT == 10
EBS_IO_DEFAULT == 1
ELB_REQUEST_DEFAULT == 1

\* the decimal strings the configuration is given, and float() of each
FloatStrings == {"5", "0.5"}

float(s) ==
    CASE s = "5" -> 500
      [] s = "0.5" -> 50

\* round(num / den, 2) for num thousandths over den: the nearest hundredth,
\* a tie going to the even one
round2(num, den) ==
    LET d == 10 * den
        q == num \div d
        r == num % d
    IN  IF 2 * r < d THEN q
        ELSE IF 2 * r > d THEN q + 1
        ELSE IF q % 2 = 0 THEN q ELSE q + 1

RECURSIVE sum(_)
sum(s) == IF s = <<>> THEN 0 ELSE Head(s) + sum(Tail(s))

\* str() of a float that is h hundredths: "10.0", "9.99", "0.5"
fstr(h) ==
    LET f == h % 100
    IN  ToString(h \div 100) \o "." \o
        (IF f % 10 = 0 THEN ToString(f \div 10)
         ELSE IF f < 10 THEN "0" \o ToString(f)
         ELSE ToString(f))

\* "%02d"
pad2(n) == IF n < 10 THEN "0" \o ToString(n) ELSE ToString(n)

\* t.strftime("%Y-%m-%dT%H:%M:%SZ")
strftime(t) ==
    ToString(t.year) \o "-" \o pad2(t.month) \o "-" \o pad2(t.day) \o "T" \o
    pad2(t.hour) \o ":" \o pad2(t.minute) \o ":" \o pad2(t.second) \o "Z"

\* what datetime.utcnow() can return
Times ==
    { [year |-> 2024, month |-> 3, day |-> 9, hour |-> 7, minute |-> 5, second |-> 0],
      [year |-> 2024, month |-> 11, day |-> 30, hour |-> 23, minute |-> 59, second |-> 59] }

RECURSIVE flatten(_)
flatten(ss) == IF ss = <<>> THEN <<>> ELSE Head(ss) \o flatten(Tail(ss))

\* "\n\n".join(parts) where every part is given by its lines: the last line of
\* a part and the first of the next are two newlines apart, so one empty line
\* stands between them
RECURSIVE join(_)
join(parts) ==
    IF parts = <<>> THEN <<>>
    ELSE IF Len(parts) = 1 THEN Head(parts)
    ELSE Head(parts) \o << <<"">> >> \o join(Tail(parts))

\* f"(bullet) {r}" for r in rs; "* " stands for the bullet character U+2022
bullets(rs) == [i \in 1..Len(rs) |-> <<"* ">> \o rs[i]]

-----------------------------------------------------------------------------
(* get_avg_cpu_utilization *)

\* the averager with "no data" defaulting to zero
get_avg_cpu_utilization_zero_default(dps) ==
    IF dps # <<>>
    THEN Some(round2(sum(dps), Len(dps)))
    ELSE Some(0)

get_avg_cpu_utilization(dps) ==
    IF dps # <<>>
    THEN Some(round2(sum(dps), Len(dps)))
    ELSE None

-----------------------------------------------------------------------------
(* What the collaborators can answer *)

\* "Average" values of a datapoint, in thousandths
Averages == {0, 500, 1500, 9985, 9990, 10000}

\* metrics["Datapoints"] as lambda_handler's calls receive it, by metric
CloudWatchAnswers(metric_name) ==
    CASE metric_name = "CPUUtilization" -> {<<>>, <<0>>, <<9980, 10000>>, <<10000>>}
      [] metric_name \in {"VolumeReadOps", "VolumeWriteOps"} -> {<<>>, <<500>>, <<1500>>}
      [] metric_name = "RequestCount" -> {<<>>, <<0>>, <<1000>>}

\* result['ResultsByTime'] of get_cost_and_usage: the UnblendedCost amounts,
\* in thousandths
CostAnswers == {<<>>, <<12345>>}

ids(prefix, n) == [i \in 1..n |-> prefix \o ToString(i)]

\* ec2_response["Reservations"] holding the instances `is`
Reservations(is) ==
    IF is = <<>> THEN {<<>>}
    ELSE {<<[Instances |-> is]>>, [i \in 1..Len(is) |-> [Instances |-> <<is[i]>>]]}

\* an ARN, as arn.split('/') returns it
LoadBalancerArn(i) ==
    <<"arn:aws:elasticloadbalancing:loadbalancer", "app", "lb", "50dc" \o ToString(i)>>

\* elbv2.describe_target_groups()["TargetGroups"] with n groups: each is
\* attached to one load balancer or to none
TargetGroups(n) ==
    { [i \in 1..n |->
          [TargetGroupName |-> "tg-" \o ToString(i),
           LoadBalancerArns |-> IF i \in A THEN <<LoadBalancerArn(i)>> ELSE <<>>]] :
      A \in SUBSET (1..n) }

-----------------------------------------------------------------------------
(* Module import, lines 7-10 *)

\* float(os.environ.get(name, default)), in hundredths
threshold(e, name, default) ==
    IF name \in DOMAIN e THEN float(e[name]) ELSE Centi(default)

-----------------------------------------------------------------------------
(* tag_resource, lines 31-39: the create_tags request *)

tag_resource(resource_id, now) ==
    [Resources |-> <<resource_id>>,
     Tags |-> <<[Key |-> "Underutilized", Value |-> "True"],
                [Key |-> "FlaggedAt", Value |-> strftime(now)]>>]

-----------------------------------------------------------------------------
(* The four checks of lambda_handler.  Each gives the two lists and the    *)
(* create_tags requests as the block leaves them.                          *)

\* lines 76-81 with <= for <
ec2_check_inclusive(instance_id, avg, now) ==
    IF avg # None
    THEN IF avg[1] <= EC2_CPU_THRESHOLD
         THEN [under |-> Append(underutilized_resources,
                    <<"EC2 Instance ", instance_id, ": ", fstr(avg[1]), "% avg CPU">>),
               ok |-> utilized_resources,
               tags |-> Append(create_tags_calls, tag_resource(instance_id, now))]
         ELSE [under |-> underutilized_resources,
               ok |-> Append(utilized_resources,
                    <<"EC2 Instance ", instance_id, ": ", fstr(avg[1]), "% avg CPU (OK)">>),
               tags |-> create_tags_calls]
    ELSE [under |-> underutilized_resources, ok |-> utilized_resources,
          tags |-> create_tags_calls]

\* lines 76-81
ec2_check(instance_id, avg, now) ==
    IF avg # None
    THEN IF avg[1] < EC2_CPU_THRESHOLD
         THEN [under |-> Append(underutilized_resources,
                    <<"EC2 Instance ", instance_id, ": ", fstr(avg[1]), "% avg CPU">>),
               ok |-> utilized_resources,
               tags |-> Append(create_tags_calls, tag_resource(instance_id, now))]
         ELSE [under |-> underutilized_resources,
               ok |-> Append(utilized_resources,
                    <<"EC2 Instance ", instance_id, ": ", fstr(avg[1]), "% avg CPU (OK)">>),
               tags |-> create_tags_calls]
    ELSE [under |-> underutilized_resources, ok |-> utilized_resources,
          tags |-> create_tags_calls]

\* lines 89-93 with the tag_resource call of the EC2 block copied into it
rds_check_tagging(db_id, avg) ==
    IF avg # None
    THEN IF avg[1] < RDS_CPU_THRESHOLD
         THEN [under |-> Append(underutilized_resources,
                    <<"RDS Instance ", db_id, ": ", fstr(avg[1]), "% avg CPU">>),
               ok |-> utilized_resources,
               tags |-> Append(create_tags_calls,
                               tag_resource(db_id, CHOOSE t \in Times : TRUE))]
         ELSE [under |-> underutilized_resources,
               ok |-> Append(utilized_resources,
                    <<"RDS Instance ", db_id, ": ", fstr(avg[1]), "% avg CPU (OK)">>),
               tags |-> create_tags_calls]
    ELSE [under |-> underutilized_resources, ok |-> utilized_resources,
          tags |-> create_tags_calls]

\* lines 89-93
rds_check(db_id, avg) ==
    IF avg # None
    THEN IF avg[1] < RDS_CPU_THRESHOLD
         THEN [under |-> Append(underutilized_resources,
                    <<"RDS Instance ", db_id, ": ", fstr(avg[1]), "% avg CPU">>),
               ok |-> utilized_resources,
               tags |-> create_tags_calls]
         ELSE [under |-> underutilized_resources,
               ok |-> Append(utilized_resources,
                    <<"RDS Instance ", db_id, ": ", fstr(avg[1]), "% avg CPU (OK)">>),
               tags |-> create_tags_calls]
    ELSE [under |-> underutilized_resources, ok |-> utilized_resources,
          tags |-> create_tags_calls]

\* lines 106-111 with a missing metric read as zero
ebs_check_none_as_zero(vol_id, read_ops, write_ops, now) ==
    LET rd == IF read_ops = None THEN 0 ELSE read_ops[1]
        wr == IF write_ops = None THEN 0 ELSE write_ops[1]
    IN  IF rd < EBS_IO_THRESHOLD /\ wr < EBS_IO_THRESHOLD
        THEN [under |-> Append(underutilized_resources,
                   <<"EBS Volume ", vol_id, ": Low I/O activity (ReadOps: ",
                     fstr(rd), ", WriteOps: ", fstr(wr), ")">>),
              ok |-> utilized_resources,
              tags |-> Append(create_tags_calls, tag_resource(vol_id, now))]
        ELSE [under |-> underutilized_resources,
              ok |-> Append(utilized_resources,
                   <<"EBS Volume ", vol_id, ": ReadOps: ", fstr(rd),
                     ", WriteOps: ", fstr(wr), " (OK)">>),
              tags |-> create_tags_calls]

\* lines 106-111 with `or` for `and` between the two comparisons
ebs_check_either(vol_id, read_ops, write_ops, now) ==
    IF read_ops # None /\ write_ops # None
    THEN IF read_ops[1] < EBS_IO_THRESHOLD \/ write_ops[1] < EBS_IO_THRESHOLD
         THEN [under |-> Append(underutilized_resources,
                    <<"EBS Volume ", vol_id, ": Low I/O activity (ReadOps: ",
                      fstr(read_ops[1]), ", WriteOps: ", fstr(write_ops[1]), ")">>),
               ok |-> utilized_resources,
               tags |-> Append(create_tags_calls, tag_resource(vol_id, now))]
         ELSE [under |-> underutilized_resources,
               ok |-> Append(utilized_resources,
                    <<"EBS Volume ", vol_id, ": ReadOps: ", fstr(read_ops[1]),
                      ", WriteOps: ", fstr(write_ops[1]), " (OK)">>),
               tags |-> create_tags_calls]
    ELSE [under |-> underutilized_resources, ok |-> utilized_resources,
          tags |-> create_tags_calls]

\* lines 106-111
ebs_check(vol_id, read_ops, write_ops, now) ==
    IF read_ops # None /\ write_ops # None
    THEN IF read_ops[1] < EBS_IO_THRESHOLD /\ write_ops[1] < EBS_IO_THRESHOLD
         THEN [under |-> Append(underutilized_resources,
                    <<"EBS Volume ", vol_id, ": Low I/O activity (ReadOps: ",
                      fstr(read_ops[1]), ", WriteOps: ", fstr(write_ops[1]), ")">>),
               ok |-> utilized_resources,
               tags |-> Append(create_tags_calls, tag_resource(vol_id, now))]
         ELSE [under |-> underutilized_resources,
               ok |-> Append(utilized_resources,
                    <<"EBS Volume ", vol_id, ": ReadOps: ", fstr(read_ops[1]),
                      ", WriteOps: ", fstr(write_ops[1]), " (OK)">>),
               tags |-> create_tags_calls]
    ELSE [under |-> underutilized_resources, ok |-> utilized_resources,
          tags |-> create_tags_calls]

\* lines 129-133
elb_check(tg_name, requests) ==
    IF requests # None
    THEN IF requests[1] < ELB_REQUEST_THRESHOLD
         THEN [under |-> Append(underutilized_resources,
                    <<"ELBv2 ", tg_name, ": Low traffic (", fstr(requests[1]),
                      " requests/hour)">>),
               ok |-> utilized_resources,
               tags |-> create_tags_calls]
         ELSE [under |-> underutilized_resources,
               ok |-> Append(utilized_resources,
                    <<"ELBv2 ", tg_name, ": ", fstr(requests[1]), " requests/hour (OK)">>),
               tags |-> create_tags_calls]
    ELSE [under |-> underutilized_resources, ok |-> utilized_resources,
          tags |-> create_tags_calls]

\* lines 42-51, given result['ResultsByTime'] (not empty)
get_cost_estimate(results) == round2(results[1], 1)

\* lines 139-151 with every resource listed under the first heading
compose_mixed(under, ok, cost) ==
    join(
        (IF under # <<>>
         THEN << << <<"UNDERUTILIZED AWS RESOURCES DETECTED">> >>,
                 bullets(under \o ok),
                 << <<"Consider rightsizing or terminating these resources.">>, <<"">> >> >>
         ELSE <<>>)
        \o
        (IF ok # <<>>
         THEN << << <<"UTILIZED RESOURCES (HEALTHY)">> >>, bullets(ok) >>
         ELSE <<>>)
        \o
        << << <<"">>, <<"Estimated Daily AWS Cost: $", fstr(cost)>> >> >>)

\* lines 139-151
compose(under, ok, cost) ==
    join(
        (IF under # <<>>
         THEN << << <<"UNDERUTILIZED AWS RESOURCES DETECTED">> >>,
                 bullets(under),
                 << <<"Consider rightsizing or terminating these resources.">>, <<"">> >> >>
         ELSE <<>>)
        \o
        (IF ok # <<>>
         THEN << << <<"UTILIZED RESOURCES (HEALTHY)">> >>, bullets(ok) >>
         ELSE <<>>)
        \o
        << << <<"">>, <<"Estimated Daily AWS Cost: $", fstr(cost)>> >> >>)

-----------------------------------------------------------------------------
(* Initial state: the module has just been imported by a new process *)

InitEnv == "SNS_TOPIC_ARN" :> "arn:aws:sns:alerts"

NoLocals ==
    /\ sns_arn = None
    /\ todo = <<>>
    /\ underutilized_resources = <<>>
    /\ utilized_resources = <<>>
    /\ estimated_cost = None
    /\ message = <<>>
    /\ create_tags_calls = <<>>
    /\ published = <<>>
    /\ result = None
    /\ scanned = <<>>
    /\ failedAt = ""

\* lines 7-10
Import(e) ==
    /\ EC2_CPU_THRESHOLD = threshold(e, "EC2_CPU_THRESHOLD", EC2_CPU_DEFAULT)
    /\ RDS_CPU_THRESHOLD = threshold(e, "RDS_CPU_THRESHOLD", RDS_CPU_DEFAULT)
    /\ EBS_IO_THRESHOLD = threshold(e, "EBS_IO_THRESHOLD", EBS_IO_DEFAULT)
    /\ ELB_REQUEST_THRESHOLD = threshold(e, "ELB_REQUEST_THRESHOLD", ELB_REQUEST_DEFAULT)

Init ==
    /\ env = InitEnv
    /\ Import(env)
    /\ pc = "idle"
    /\ NoLocals
    /\ datapoints = <<>>
    /\ avg_cpu = None

-----------------------------------------------------------------------------
(* The host *)

\* lines 63-64 and the locals not yet assigned
FreshLocals ==
    /\ todo' = <<>>
    /\ underutilized_resources' = <<>>
    /\ utilized_resources' = <<>>
    /\ estimated_cost' = None
    /\ message' = <<>>
    /\ create_tags_calls' = <<>>
    /\ published' = <<>>
    /\ result' = None
    /\ scanned' = <<>>
    /\ failedAt' = ""

\* the configurations the function is deployed with
Configs ==
    { InitEnv,
      InitEnv @@ ("EC2_CPU_THRESHOLD" :> "5") @@ ("RDS_CPU_THRESHOLD" :> "0.5")
              @@ ("EBS_IO_THRESHOLD" :> "5") @@ ("ELB_REQUEST_THRESHOLD" :> "5") }

\* the function's configuration is changed between two invocations
SetEnv ==
    /\ pc = "idle"
    /\ \E e \in Configs :
          /\ e # env
          /\ env' = e
    /\ UNCHANGED <<globals, pc, locals, averager>>

\* the host starts a new process, which imports the module (lines 7-10)
ColdStart ==
    /\ pc = "idle"
    /\ EC2_CPU_THRESHOLD' = threshold(env, "EC2_CPU_THRESHOLD", EC2_CPU_DEFAULT)
    /\ RDS_CPU_THRESHOLD' = threshold(env, "RDS_CPU_THRESHOLD", RDS_CPU_DEFAULT)
    /\ EBS_IO_THRESHOLD' = threshold(env, "EBS_IO_THRESHOLD", EBS_IO_DEFAULT)
    /\ ELB_REQUEST_THRESHOLD' = threshold(env, "ELB_REQUEST_THRESHOLD", ELB_REQUEST_DEFAULT)
    /\ UNCHANGED <<pc, locals>>
    /\ UNCHANGED <<env, averager>>

\* lines 54-64: the host calls lambda_handler in the process it has
Invoke ==
    /\ pc = "idle"
    /\ sns_arn' = IF "SNS_TOPIC_ARN" \in DOMAIN env THEN Some(env["SNS_TOPIC_ARN"]) ELSE None
    /\ FreshLocals
    /\ pc' = "ec2_list"
    /\ UNCHANGED <<env, globals, averager>>

\* a collaborator call raises: nothing in lambda_handler catches it
Raise(call) ==
    /\ pc' = "failed"
    /\ failedAt' = call

-----------------------------------------------------------------------------
(* lambda_handler, lines 66-165 *)

Budget == MaxResources - Len(scanned)

\* lines 68-70
DescribeInstances ==
    /\ pc = "ec2_list"
    /\ \/ \E n \in 0..Budget : \E reservations \in Reservations(ids("i-", n)) :
             /\ todo' = flatten([r \in 1..Len(reservations) |-> reservations[r].Instances])
             /\ pc' = "ec2"
             /\ UNCHANGED failedAt
       \/ /\ Raise("describe_instances")
          /\ UNCHANGED todo
    /\ UNCHANGED <<env, globals, sns_arn, underutilized_resources, utilized_resources,
                   estimated_cost, message, create_tags_calls, published, result,
                   scanned, averager>>

\* the outcome r of a check is stored; create_tags, when called, may raise
Store(r, observation) ==
    /\ underutilized_resources' = r.under
    /\ utilized_resources' = r.ok
    /\ create_tags_calls' = r.tags
    /\ scanned' = Append(scanned, observation)
    /\ \/ /\ todo' = Tail(todo)
          /\ UNCHANGED <<pc, failedAt>>
       \/ /\ r.tags # create_tags_calls
          /\ Raise("create_tags")
          /\ UNCHANGED todo

\* lines 72-81, one iteration
CheckInstance ==
    /\ pc = "ec2"
    /\ todo # <<>>
    /\ \E dps \in CloudWatchAnswers("CPUUtilization"), now \in Times :
          LET instance_id == Head(todo)
              avg == get_avg_cpu_utilization(dps)
          IN  Store(ec2_check(instance_id, avg, now),
                    [kind |-> "EC2", id |-> instance_id, dimension |-> instance_id,
                     metrics |-> <<avg>>])
    /\ UNCHANGED <<env, globals, sns_arn, estimated_cost, message, published, result,
                   averager>>

\* line 85
DescribeDBInstances ==
    /\ pc = "ec2"
    /\ todo = <<>>
    /\ \/ \E n \in 0..Budget :
             /\ todo' = ids("db-", n)
             /\ pc' = "rds"
             /\ UNCHANGED failedAt
       \/ /\ Raise("describe_db_instances")
          /\ UNCHANGED todo
    /\ UNCHANGED <<env, globals, sns_arn, underutilized_resources, utilized_resources,
                   estimated_cost, message, create_tags_calls, published, result,
                   scanned, averager>>

\* lines 86-93, one iteration
CheckDBInstance ==
    /\ pc = "rds"
    /\ todo # <<>>
    /\ \E dps \in CloudWatchAnswers("CPUUtilization") :
          LET db_id == Head(todo)
              avg == get_avg_cpu_utilization(dps)
          IN  Store(rds_check(db_id, avg),
                    [kind |-> "RDS", id |-> db_id, dimension |-> db_id, metrics |-> <<avg>>])
    /\ UNCHANGED <<env, globals, sns_arn, estimated_cost, message, published, result,
                   averager>>

\* lines 97-99
DescribeVolumes ==
    /\ pc = "rds"
    /\ todo = <<>>
    /\ \/ \E n \in 0..Budget :
             /\ todo' = ids("vol-", n)
             /\ pc' = "ebs"
             /\ UNCHANGED failedAt
       \/ /\ Raise("describe_volumes")
          /\ UNCHANGED todo
    /\ UNCHANGED <<env, globals, sns_arn, underutilized_resources, utilized_resources,
                   estimated_cost, message, create_tags_calls, published, result,
                   scanned, averager>>

\* lines 101-111, one iteration
CheckVolume ==
    /\ pc = "ebs"
    /\ todo # <<>>
    /\ \E rd \in CloudWatchAnswers("VolumeReadOps"),
          wr \in CloudWatchAnswers("VolumeWriteOps"), now \in Times :
          LET vol_id == Head(todo)
              read_ops == get_avg_cpu_utilization(rd)
              write_ops == get_avg_cpu_utilization(wr)
          IN  Store(ebs_check(vol_id, read_ops, write_ops, now),
                    [kind |-> "EBS", id |-> vol_id, dimension |-> vol_id,
                     metrics |-> <<read_ops, write_ops>>])
    /\ UNCHANGED <<env, globals, sns_arn, estimated_cost, message, published, result,
                   averager>>

\* line 115
DescribeTargetGroups ==
    /\ pc = "ebs"
    /\ todo = <<>>
    /\ \/ \E n \in 0..Budget : \E target_groups \in TargetGroups(n) :
             /\ todo' = target_groups
             /\ pc' = "elb"
             /\ UNCHANGED failedAt
       \/ /\ Raise("describe_target_groups")
          /\ UNCHANGED todo
    /\ UNCHANGED <<env, globals, sns_arn, underutilized_resources, utilized_resources,
                   estimated_cost, message, create_tags_calls, published, result,
                   scanned, averager>>

\* lines 117-133, one iteration; line 119 raises IndexError for a target group
\* that no load balancer is attached to
CheckTargetGroup ==
    /\ pc = "elb"
    /\ todo # <<>>
    /\ LET tg == Head(todo)
           tg_name == tg.TargetGroupName
       IN  \/ /\ tg.LoadBalancerArns # <<>>
              /\ \E dps \in CloudWatchAnswers("RequestCount") :
                    LET arn == tg.LoadBalancerArns[1]
                        lb_arn_suffix == arn[Len(arn)]
                        requests == get_avg_cpu_utilization(dps)
                    IN  Store(elb_check(tg_name, requests),
                              [kind |-> "ELB", id |-> tg_name, dimension |-> lb_arn_suffix,
                               metrics |-> <<requests>>])
           \/ /\ tg.LoadBalancerArns = <<>>
              /\ Raise("LoadBalancerArns[0]")
              /\ UNCHANGED <<todo, underutilized_resources, utilized_resources,
                             create_tags_calls, scanned>>
    /\ UNCHANGED <<env, globals, sns_arn, estimated_cost, message, published, result,
                   averager>>

\* cloudwatch.get_metric_statistics raises inside one of the four loops
GetMetricStatisticsRaises ==
    /\ pc \in {"ec2", "rds", "ebs", "elb"}
    /\ todo # <<>>
    /\ pc = "elb" => Head(todo).LoadBalancerArns # <<>>
    /\ Raise("get_metric_statistics")
    /\ UNCHANGED <<env, globals, sns_arn, todo, underutilized_resources,
                   utilized_resources, estimated_cost, message, create_tags_calls,
                   published, result, scanned, averager>>

\* lines 136-151: line 136 (lines 42-51) raises when get_cost_and_usage
\* raises, and IndexError at line 50 for an empty ResultsByTime
EstimateAndCompose ==
    /\ pc = "elb"
    /\ todo = <<>>
    /\ \/ \E results \in CostAnswers :
             \/ /\ results # <<>>
                /\ estimated_cost' = Some(get_cost_estimate(results))
                /\ message' = compose(underutilized_resources, utilized_resources,
                                      estimated_cost'[1])
                /\ pc' = "publish"
                /\ UNCHANGED failedAt
             \/ /\ results = <<>>
                /\ Raise("ResultsByTime[0]")
                /\ UNCHANGED <<estimated_cost, message>>
       \/ /\ Raise("get_cost_and_usage")
          /\ UNCHANGED <<estimated_cost, message>>
    /\ UNCHANGED <<env, globals, sns_arn, todo, underutilized_resources,
                   utilized_resources, create_tags_calls, published, result,
                   scanned, averager>>

\* lines 154-165 with the publish skipped when nothing is underutilized
PublishUnlessEmpty ==
    /\ pc = "publish"
    /\ \/ /\ underutilized_resources # <<>>
          /\ published' = Append(published,
                [TopicArn |-> sns_arn, Subject |-> "AWS Underutilized Resource Alert",
                 Message |-> message])
          /\ result' = Some([statusCode |-> 200, body |-> "Utilization scan complete."])
          /\ pc' = "done"
          /\ UNCHANGED failedAt
       \/ /\ underutilized_resources = <<>>
          /\ result' = Some([statusCode |-> 200, body |-> "Utilization scan complete."])
          /\ pc' = "done"
          /\ UNCHANGED <<published, failedAt>>
       \/ /\ Raise("publish")
          /\ UNCHANGED <<published, result>>
    /\ UNCHANGED <<env, globals, sns_arn, todo, underutilized_resources,
                   utilized_resources, estimated_cost, message, create_tags_calls,
                   scanned, averager>>

\* lines 154-165
Publish ==
    /\ pc = "publish"
    /\ \/ /\ published' = Append(published,
                [TopicArn |-> sns_arn, Subject |-> "AWS Underutilized Resource Alert",
                 Message |-> message])
          /\ result' = Some([statusCode |-> 200, body |-> "Utilization scan complete."])
          /\ pc' = "done"
          /\ UNCHANGED failedAt
       \/ /\ Raise("publish")
          /\ UNCHANGED <<published, result>>
    /\ UNCHANGED <<env, globals, sns_arn, todo, underutilized_resources,
                   utilized_resources, estimated_cost, message, create_tags_calls,
                   scanned, averager>>

\* the invocation is over and its frame is gone; the process waits for the next
Finish ==
    /\ pc \in {"done", "failed"}
    /\ pc' = "idle"
    /\ sns_arn' = None
    /\ FreshLocals
    /\ UNCHANGED <<env, globals, averager>>

Next ==
    \/ SetEnv
    \/ ColdStart
    \/ Invoke
    \/ DescribeInstances
    \/ CheckInstance
    \/ DescribeDBInstances
    \/ CheckDBInstance
    \/ DescribeVolumes
    \/ CheckVolume
    \/ DescribeTargetGroups
    \/ CheckTargetGroup
    \/ GetMetricStatisticsRaises
    \/ EstimateAndCompose
    \/ Publish
    \/ Finish

Spec == Init /\ [][Next]_vars

-----------------------------------------------------------------------------
(* The averager on its own: get_avg_cpu_utilization is given every sample   *)
(* set of up to MaxDatapoints datapoints and its result goes through the    *)
(* check of lines 76-81.                                                    *)

RECURSIVE Seqs(_, _)
Seqs(S, n) ==
    IF n = 0 THEN {<<>>}
    ELSE LET shorter == Seqs(S, n - 1)
         IN  shorter \cup {Append(q, x) : q \in {t \in shorter : Len(t) = n - 1}, x \in S}

AvgInit ==
    /\ env = InitEnv
    /\ Import(env)
    /\ pc = "avg_call"
    /\ NoLocals
    /\ datapoints \in Seqs(Averages, MaxDatapoints)
    /\ avg_cpu = None

\* lines 24-28
AvgReturn ==
    /\ pc = "avg_call"
    /\ avg_cpu' = get_avg_cpu_utilization(datapoints)
    /\ pc' = "avg_check"
    /\ UNCHANGED <<env, globals, locals, datapoints>>

\* lines 76-81
AvgCheck ==
    /\ pc = "avg_check"
    /\ \E now \in Times :
          LET r == ec2_check("i-1", avg_cpu, now)
          IN  /\ underutilized_resources' = r.under
              /\ utilized_resources' = r.ok
              /\ create_tags_calls' = r.tags
    /\ pc' = "avg_done"
    /\ UNCHANGED <<env, globals, sns_arn, todo, estimated_cost, message, published,
                   result, scanned, failedAt, averager>>

AvgNext == AvgReturn \/ AvgCheck

SpecAvg == AvgInit /\ [][AvgNext]_vars

-----------------------------------------------------------------------------
(* Vocabulary of the properties *)

Observations == {scanned[i] : i \in DOMAIN scanned}

Singles == {"EC2", "RDS", "ELB"}

Label(kind) ==
    CASE kind = "EC2" -> "EC2 Instance "
      [] kind = "RDS" -> "RDS Instance "
      [] kind = "EBS" -> "EBS Volume "
      [] kind = "ELB" -> "ELBv2 "

\* position of a kind in the order compute, database, volume, load balancer
Rank(label) ==
    CASE label = "EC2 Instance " -> 1
      [] label = "RDS Instance " -> 2
      [] label = "EBS Volume " -> 3
      [] label = "ELBv2 " -> 4

\* the threshold the process holds for a kind
Threshold(kind) ==
    CASE kind = "EC2" -> EC2_CPU_THRESHOLD
      [] kind = "RDS" -> RDS_CPU_THRESHOLD
      [] kind = "EBS" -> EBS_IO_THRESHOLD
      [] kind = "ELB" -> ELB_REQUEST_THRESHOLD

\* the threshold the configuration e gives a kind
Configured(e, kind) ==
    CASE kind = "EC2" -> threshold(e, "EC2_CPU_THRESHOLD", EC2_CPU_DEFAULT)
      [] kind = "RDS" -> threshold(e, "RDS_CPU_THRESHOLD", RDS_CPU_DEFAULT)
      [] kind = "EBS" -> threshold(e, "EBS_IO_THRESHOLD", EBS_IO_DEFAULT)
      [] kind = "ELB" -> threshold(e, "ELB_REQUEST_THRESHOLD", ELB_REQUEST_DEFAULT)

NoData(o) == \E m \in DOMAIN o.metrics : o.metrics[m] = None

\* the list entry is about the resource o
About(entry, o) == entry[1] = Label(o.kind) /\ entry[2] = o.id

InUnderutilized(o) ==
    \E j \in DOMAIN underutilized_resources : About(underutilized_resources[j], o)

InHealthy(o) ==
    \E j \in DOMAIN utilized_resources : About(utilized_resources[j], o)

Tagged(o) ==
    \E j \in DOMAIN create_tags_calls : create_tags_calls[j].Resources = <<o.id>>

Success == Some([statusCode |-> 200, body |-> "Utilization scan complete."])

UnderHeading == <<"UNDERUTILIZED AWS RESOURCES DETECTED">>

HealthyHeading == <<"UTILIZED RESOURCES (HEALTHY)">>

\* the first position of a line in a body, 0 when it is not there
Index(body, line) ==
    IF \E i \in DOMAIN body : body[i] = line
    THEN CHOOSE i \in DOMAIN body : body[i] = line /\ \A j \in 1..(i - 1) : body[j] # line
    ELSE 0

\* the lines after the underutilized heading, up to the healthy heading
UnderSection(body) ==
    LET u == Index(body, UnderHeading)
        h == Index(body, HealthyHeading)
    IN  IF u = 0 THEN <<>>
        ELSE SubSeq(body, u + 1, IF h > u THEN h - 1 ELSE Len(body))

\* the lines after the healthy heading
HealthySection(body) ==
    LET h == Index(body, HealthyHeading)
    IN  IF h = 0 THEN <<>> ELSE SubSeq(body, h + 1, Len(body))

IsBullet(line) == line[1] = "* "

Bullets(lines) == SelectSeq(lines, IsBullet)

\* a bullet line shows the resource o: its identifier and its metric value(s)
Shows(line, o) ==
    /\ line[2] = Label(o.kind)
    /\ line[3] = o.id
    /\ IF o.kind = "EBS"
       THEN line[5] = fstr(o.metrics[1][1]) /\ line[7] = fstr(o.metrics[2][1])
       ELSE line[5] = fstr(o.metrics[1][1])

UnderObservations == SelectSeq(scanned, InUnderutilized)

HealthyObservations == SelectSeq(scanned, InHealthy)

Abs(x) == IF x < 0 THEN -x ELSE x

-----------------------------------------------------------------------------
(* Properties *)

\* C1: a resource for which the averager returned no data (for a volume: for
\* its read metric, its write metric or both) is in neither the underutilized
\* list nor the healthy list, and no tag request is issued for it.
NoDataExcluded ==
    \A o \in Observations :
        NoData(o) => ~InUnderutilized(o) /\ ~InHealthy(o) /\ ~Tagged(o)

\* an invocation ended with a volume that has read data and no write data, and
\* an instance that has no data, beside nothing else
NoDataExcludedWitness ==
    /\ pc = "done"
    /\ \E o \in Observations : o.kind = "EBS" /\ o.metrics = <<Some(50), None>>
    /\ \E o \in Observations : o.kind = "EC2" /\ o.metrics = <<None>>
    /\ underutilized_resources = <<>>
    /\ utilized_resources = <<>>

\* C2: a compute instance, database instance or target group with metric value
\* v and threshold t is Underutilized exactly when v < t and Healthy exactly
\* when v >= t; a value equal to the threshold is Healthy.
SingleMetricClassification ==
    \A o \in Observations :
        (o.kind \in Singles /\ ~NoData(o)) =>
            /\ InUnderutilized(o) <=> o.metrics[1][1] < Threshold(o.kind)
            /\ InHealthy(o) <=> o.metrics[1][1] >= Threshold(o.kind)

\* threshold 10: one instance at 9.99 is Underutilized, one at 10.00 is Healthy
SingleMetricClassificationWitness ==
    /\ pc = "done"
    /\ EC2_CPU_THRESHOLD = Centi(10)
    /\ \E o \in Observations :
          o.kind = "EC2" /\ o.metrics = <<Some(999)>> /\ InUnderutilized(o)
    /\ \E o \in Observations :
          o.kind = "EC2" /\ o.metrics = <<Some(1000)>> /\ InHealthy(o)

\* C3: an in-use volume with read rate r, write rate w and threshold t is
\* Underutilized exactly when r < t and w < t, and Healthy when r >= t or w >= t.
VolumeClassification ==
    \A o \in Observations :
        (o.kind = "EBS" /\ ~NoData(o)) =>
            LET r == o.metrics[1][1]
                w == o.metrics[2][1]
            IN  /\ InUnderutilized(o) <=> (r < EBS_IO_THRESHOLD /\ w < EBS_IO_THRESHOLD)
                /\ InHealthy(o) <=> (r >= EBS_IO_THRESHOLD \/ w >= EBS_IO_THRESHOLD)

\* threshold 1: read 0.5 / write 0.5 is Underutilized, read 0.5 / write 1.5 Healthy
VolumeClassificationWitness ==
    /\ pc = "done"
    /\ EBS_IO_THRESHOLD = Centi(1)
    /\ \E o \in Observations :
          o.kind = "EBS" /\ o.metrics = <<Some(50), Some(50)>> /\ InUnderutilized(o)
    /\ \E o \in Observations :
          o.kind = "EBS" /\ o.metrics = <<Some(50), Some(150)>> /\ InHealthy(o)

\* C4: when the call that lists the target groups fails, the invocation still
\* publishes its notification (with the findings of the passes before it).
PassesIsolated ==
    (pc = "failed" /\ failedAt = "describe_target_groups") => Len(published) = 1

\* C5 as stated: an invocation that ends with an empty underutilized list has
\* published no notification.
SuppressedWhenEmpty ==
    (pc = "done" /\ underutilized_resources = <<>>) => published = <<>>

\* C5, amended: an invocation with an empty underutilized list does not suppress
\* the notification: when it returns, it returns the success status and has
\* published exactly one notification, whose body has no underutilized heading
\* and ends with the cost line.
PublishedWhenEmpty ==
    (underutilized_resources = <<>> /\ (pc = "done" \/ result # None)) =>
        /\ result = Success
        /\ Len(published) = 1
        /\ LET body == published[1].Message
           IN  /\ Index(body, UnderHeading) = 0
               /\ UnderSection(body) = <<>>
               /\ Len(Bullets(HealthySection(body))) = Len(utilized_resources)
               /\ body[Len(body)][1] = "Estimated Daily AWS Cost: $"

\* an invocation with one healthy and one no-data resource has returned
PublishedWhenEmptyWitness ==
    /\ pc = "done"
    /\ underutilized_resources = <<>>
    /\ Len(utilized_resources) = 1
    /\ Len(scanned) = 2
    /\ Len(published) = 1

\* C6: every invocation classifies with the thresholds the configuration holds
\* when it runs, also in a process that was started under another configuration.
ThresholdsReadFresh ==
    \A o \in Observations :
        ~NoData(o) =>
            (InUnderutilized(o) <=>
                \A m \in DOMAIN o.metrics : o.metrics[m][1] < Configured(env, o.kind))

\* C7: a tag request is issued for a resource exactly when it is a compute
\* instance or a volume classified Underutilized in this invocation (never for a
\* database instance, a target group, a Healthy or a no-data resource), and every
\* request carries exactly the tags Underutilized="True" and FlaggedAt=<UTC time>.
TagsExactlyUnderutilized ==
    /\ \A o \in Observations :
          /\ Tagged(o) <=> (o.kind \in {"EC2", "EBS"} /\ InUnderutilized(o))
          /\ Tagged(o) => ~InHealthy(o) /\ ~NoData(o)
    /\ \A j \in DOMAIN create_tags_calls :
          LET c == create_tags_calls[j]
          IN  /\ \E o \in Observations : c.Resources = <<o.id>>
              /\ \A k \in DOMAIN create_tags_calls :
                    create_tags_calls[k].Resources = c.Resources => k = j
              /\ Len(c.Tags) = 2
              /\ c.Tags[1] = [Key |-> "Underutilized", Value |-> "True"]
              /\ c.Tags[2].Key = "FlaggedAt"
              /\ c.Tags[2].Value \in {"2024-03-09T07:05:00Z", "2024-11-30T23:59:59Z"}

\* an underutilized instance was tagged, an underutilized database was not
TagsExactlyUnderutilizedWitness ==
    /\ pc = "done"
    /\ \E o \in Observations : o.kind = "EC2" /\ InUnderutilized(o) /\ Tagged(o)
    /\ \E o \in Observations : o.kind = "RDS" /\ InUnderutilized(o) /\ ~Tagged(o)
    /\ create_tags_calls[1].Tags[2].Value = "2024-03-09T07:05:00Z"

\* C8: for N >= 1 datapoints the averager returns the mean of their "Average"
\* rounded to 2 decimals (a hundredth nearest to the mean); for N = 0 it returns
\* None and never 0; a mean of exactly 0 returns 0, which is not None, and the
\* resource is then classified.
AveragerContract ==
    pc \in {"avg_check", "avg_done"} =>
        LET N == Len(datapoints)
            S == sum(datapoints)
        IN  /\ N = 0 => avg_cpu = None /\ avg_cpu # Some(0)
            /\ N >= 1 =>
                  /\ avg_cpu # None
                  /\ Len(avg_cpu) = 1
                  /\ 2 * Abs(10 * N * avg_cpu[1] - S) <= 10 * N
            /\ (N >= 1 /\ S = 0) => avg_cpu = Some(0)
            /\ (pc = "avg_done" /\ N >= 1) =>
                  Len(underutilized_resources) + Len(utilized_resources) = 1
            /\ (pc = "avg_done" /\ N = 0) =>
                  Len(underutilized_resources) + Len(utilized_resources) = 0

\* the mean 3.3333... of three datapoints came back as 3.33 and was classified
AveragerContractWitness ==
    /\ pc = "avg_done"
    /\ datapoints = <<0, 0, 10000>>
    /\ avg_cpu = Some(333)
    /\ Len(underutilized_resources) = 1

\* C9: in every published body the resources classified Underutilized stand
\* under the underutilized heading, each with its identifier and metric value,
\* in the order compute, database, volume, load balancer; no Healthy resource
\* stands there; the Healthy ones stand under the healthy heading, which follows.
NotificationBody ==
    \A k \in DOMAIN published :
        LET body == published[k].Message
            under == Bullets(UnderSection(body))
            healthy == Bullets(HealthySection(body))
        IN  /\ Len(under) = Len(UnderObservations)
            /\ \A i \in DOMAIN under : Shows(under[i], UnderObservations[i])
            /\ \A i, j \in DOMAIN under : i < j => Rank(under[i][2]) <= Rank(under[j][2])
            /\ \A o \in Observations :
                  InHealthy(o) =>
                      \A i \in DOMAIN UnderSection(body) :
                          LET line == UnderSection(body)[i]
                          IN  ~(Len(line) >= 3 /\ line[2] = Label(o.kind) /\ line[3] = o.id)
            /\ Len(healthy) = Len(HealthyObservations)
            /\ \A i \in DOMAIN healthy : Shows(healthy[i], HealthyObservations[i])
            /\ UnderObservations # <<>> => Index(body, UnderHeading) = 1
            /\ (UnderObservations # <<>> /\ HealthyObservations # <<>>) =>
                  Index(body, HealthyHeading) > Index(body, UnderHeading) + Len(under)

\* one underutilized instance and one healthy database were published
NotificationBodyWitness ==
    /\ Len(published) = 1
    /\ \E o \in Observations : o.kind = "EC2" /\ InUnderutilized(o)
    /\ \E o \in Observations : o.kind = "RDS" /\ InHealthy(o)

\* C10: when the cost is not available (the lookup raises or returns no
\* result) the invocation still publishes the notification.
CostOptional ==
    (pc = "failed" /\ failedAt \in {"get_cost_and_usage", "ResultsByTime[0]"})
        => Len(published) = 1

====
